---- MODULE Spec2Model ----
(***************************************************************************)
(* Weighted Product ranking (src/app.py): the routine weighted_product and *)
(* the Streamlit script that feeds it.                                     *)
(*                                                                         *)
(* Floating-point values are modelled bit for bit.  A double that is a    *)
(* small dyadic rational is the pair <<n, d>> (d > 0 a power of two, n/d   *)
(* in lowest terms); <<0, 0>> is NaN, <<1, 0>> is +inf and <<-1, 0>> is    *)
(* -inf, with the IEEE-754 rules numpy applies to them.  Any other double  *)
(* is the quadruple <<s, hi, lo, e>> of its sign s, the upper 26 bits hi   *)
(* and the lower 27 bits lo of its 53-bit significand and its exponent e:  *)
(* the value s * (hi * 2^27 + lo) * 2^e.  Sums, products and powers are    *)
(* taken only of values on which they are exact (see Representable); a     *)
(* quotient is rounded to the nearest double, ties to even, as the         *)
(* division of two float64 values is.                                      *)
(***************************************************************************)
EXTENDS Integers, Sequences, FiniteSets, TLC

\* X, weights, criteria_type, alternatives: the arguments of weighted_product
\* pc:     "ready" before the call, "done" after it ("app" in the script's runs)
\* result: what the call left: the returned frame or the exception raised
\* prev:   the cell raised before a repeated call and the score it had
\* page:   the widgets of the Streamlit page and what the last run showed
VARIABLES X, weights, criteria_type, alternatives, pc, result, prev, page

vars == <<X, weights, criteria_type, alternatives, pc, result, prev, page>>

(***************************************************************************)
(* Bounds of the model.                                                    *)
(***************************************************************************)
\* largest number of alternatives (rows of X)
MaxAlt == 3

\* numbers of criteria (columns of X)
CritCounts == {1, 2}

(***************************************************************************)
(* IEEE-754 double arithmetic.                                             *)
(***************************************************************************)
NaN == <<0, 0>>
Inf == <<1, 0>>
Zero == <<0, 1>>
One == <<1, 1>>

Abs(i) == IF i < 0 THEN -i ELSE i

Sign(i) == IF i < 0 THEN -1 ELSE IF i > 0 THEN 1 ELSE 0

RECURSIVE GCD(_, _)
GCD(a, b) == IF b = 0 THEN a ELSE GCD(b, a % b)

\* the number n/d (d # 0) in lowest terms with a positive denominator
Rat(n, d) ==
    LET g == GCD(Abs(n), Abs(d))
    IN  <<Sign(d) * (n \div g), Abs(d) \div g>>

\* a double held as <<s, hi, lo, e>>, the result of a rounded division
IsRounded(a) == Len(a) = 4

IsNaN(a) == a = NaN
IsInf(a) == ~IsRounded(a) /\ a[2] = 0 /\ a[1] # 0
IsFin(a) == IsRounded(a) \/ a[2] > 0

Neg(a) == IF IsRounded(a) THEN <<-a[1], a[2], a[3], a[4]>> ELSE <<-a[1], a[2]>>

\* d > 0 is a power of two
RECURSIVE IsPow2(_)
IsPow2(d) == d = 1 \/ (d % 2 = 0 /\ IsPow2(d \div 2))

\* <<n1, d1, k>> with n/d = (n1/d1) * 2^k and 1 <= n1/d1 < 2, for n, d > 0
RECURSIVE Scale(_, _, _)
Scale(n, d, k) ==
    IF n < d THEN Scale(2 * n, d, k - 1)
    ELSE IF n - d >= d THEN Scale(n, 2 * d, k + 1)
    ELSE <<n, d, k>>

\* long division: the next `bits` binary digits of r/d (0 <= r < d) shifted
\* into acc, and the remainder they leave
RECURSIVE Quot(_, _, _, _)
Quot(acc, r, d, bits) ==
    IF bits = 0 THEN <<acc, r>>
    ELSE IF 2 * r >= d THEN Quot(2 * acc + 1, 2 * r - d, d, bits - 1)
    ELSE Quot(2 * acc, 2 * r, d, bits - 1)

HiBits == 26
LoBits == 27
HiUnit == 33554432
LoUnit == 134217728

\* the double nearest to n/d (n, d > 0), ties to even: 53 significant bits
\* by long division, then the rounding bit and the sticky remainder
Round(n, d) ==
    LET sc == Scale(n, d, 0)
        h == Quot(1, sc[1] - sc[2], sc[2], HiBits - 1)
        l == Quot(0, h[2], sc[2], LoBits)
        g == Quot(0, l[2], sc[2], 1)
        up == g[1] = 1 /\ (g[2] # 0 \/ l[1] % 2 = 1)
        lo == IF up THEN l[1] + 1 ELSE l[1]
        hi == IF lo = LoUnit THEN h[1] + 1 ELSE h[1]
    IN  IF hi = 2 * HiUnit THEN <<1, HiUnit, 0, sc[3] - 51>>
        ELSE <<1, hi, lo % LoUnit, sc[3] - 52>>

\* the double of value n/d (d > 0): the pair when n/d is a dyadic rational,
\* the rounded quadruple otherwise
Float(n, d) ==
    LET q == Rat(n, d)
    IN  IF IsPow2(q[2]) THEN q
        ELSE IF q[1] < 0 THEN Neg(Round(-q[1], q[2])) ELSE Round(q[1], q[2])

\* a finite double as a quadruple, <<0, 0, 0, 0>> for zero
Quad(a) ==
    IF IsRounded(a) THEN a
    ELSE IF a[1] = 0 THEN <<0, 0, 0, 0>>
    ELSE IF a[1] < 0 THEN Neg(Round(-a[1], a[2]))
    ELSE Round(a[1], a[2])

\* a < b for two quadruples
LtQuad(a, b) ==
    IF a[1] # b[1] THEN a[1] < b[1]
    ELSE IF a[1] = 0 THEN FALSE
    ELSE LET below == \/ a[4] < b[4]
                      \/ a[4] = b[4] /\ a[2] < b[2]
                      \/ a[4] = b[4] /\ a[2] = b[2] /\ a[3] < b[3]
         IN  IF a[1] > 0 THEN below ELSE a # b /\ ~below

Add(a, b) ==
    IF IsNaN(a) \/ IsNaN(b) THEN NaN
    ELSE IF IsInf(a) /\ IsInf(b) THEN (IF a = b THEN a ELSE NaN)
    ELSE IF IsInf(a) THEN a
    ELSE IF IsInf(b) THEN b
    ELSE LET g == GCD(a[2], b[2])
         IN  Rat(a[1] * (b[2] \div g) + b[1] * (a[2] \div g), (a[2] \div g) * b[2])

Mul(a, b) ==
    IF IsNaN(a) \/ IsNaN(b) THEN NaN
    ELSE IF IsInf(a) \/ IsInf(b)
         THEN (IF a[1] = 0 \/ b[1] = 0 THEN NaN
               ELSE <<Sign(a[1]) * Sign(b[1]), 0>>)
    ELSE LET g == GCD(Abs(a[1]), b[2])
             h == GCD(Abs(b[1]), a[2])
         IN  Rat((a[1] \div g) * (b[1] \div h), (a[2] \div h) * (b[2] \div g))

\* a / b for two doubles held as pairs, rounded to the nearest double; zeros
\* are +0 (the routine never produces -0 from the modelled inputs)
Div(a, b) ==
    IF IsNaN(a) \/ IsNaN(b) THEN NaN
    ELSE IF IsInf(a) THEN (IF IsInf(b) THEN NaN
                           ELSE <<a[1] * (IF b[1] < 0 THEN -1 ELSE 1), 0>>)
    ELSE IF IsInf(b) THEN Zero
    ELSE IF b[1] = 0 THEN (IF a[1] = 0 THEN NaN ELSE <<Sign(a[1]), 0>>)
    ELSE LET g == GCD(Abs(a[1]), Abs(b[1]))
             h == GCD(a[2], b[2])
         IN  Float((a[1] \div g) * (b[2] \div h), (a[2] \div h) * (b[1] \div g))

\* a < b; false whenever a NaN is involved
Lt(a, b) ==
    IF IsNaN(a) \/ IsNaN(b) THEN FALSE
    ELSE IF IsInf(a) THEN a[1] < 0 /\ b # a
    ELSE IF IsInf(b) THEN b[1] > 0
    ELSE IF IsRounded(a) \/ IsRounded(b) THEN LtQuad(Quad(a), Quad(b))
    ELSE a[1] * b[2] < b[1] * a[2]

\* min(acc * b^p, cap + 1) for b >= 2, stopping as soon as the cap is passed
RECURSIVE PowFrom(_, _, _, _)
PowFrom(acc, b, p, cap) ==
    IF acc > cap THEN cap + 1
    ELSE IF p = 0 THEN acc
    ELSE IF acc > cap \div b THEN cap + 1
    ELSE PowFrom(acc * b, b, p - 1, cap)

\* min(b^p, cap + 1) for b >= 0, p >= 0, computed without leaving 0..cap+1
PowCap(b, p, cap) ==
    IF p = 0 THEN 1
    ELSE IF b <= 1 THEN b
    ELSE PowFrom(1, b, p, cap)

\* the integer r >= 0 with r^q = x, or -1 when x is no perfect q-th power
IntRoot(x, q) ==
    IF x <= 1 \/ q = 1 THEN x
    ELSE IF \E r \in 2..x : PowCap(r, q, x) = x
         THEN CHOOSE r \in 2..x : PowCap(r, q, x) = x
         ELSE -1

\* largest integer the model lets a power's numerator or denominator reach
MaxMagnitude == 1000000

\* x ** e is exactly representable: x = a/b > 0 and e = p/q finite with a and b
\* perfect q-th powers, or one of the special cases of pow
Representable(x, e) ==
    \/ IsNaN(e) \/ e[1] = 0 \/ x[1] = 0 \/ x = One
    \/ /\ IsFin(x) /\ x[1] > 0 /\ IsFin(e) /\ ~IsRounded(e)
       /\ IntRoot(x[1], e[2]) >= 0 /\ IntRoot(x[2], e[2]) >= 0
       /\ e[1] < 0 => IsPow2(IntRoot(x[1], e[2]))
       /\ PowCap(IntRoot(x[1], e[2]), Abs(e[1]), MaxMagnitude) <= MaxMagnitude
       /\ PowCap(IntRoot(x[2], e[2]), Abs(e[1]), MaxMagnitude) <= MaxMagnitude

\* x ** e for a finite x >= 0 (numpy power on float64)
Pow(x, e) ==
    IF IsFin(e) /\ e[1] = 0 THEN One
    ELSE IF x = One THEN One
    ELSE IF IsNaN(e) THEN NaN
    ELSE IF x[1] = 0 THEN (IF e[1] > 0 THEN Zero ELSE Inf)
    ELSE IF IsRounded(e) THEN NaN
    ELSE LET rn == IntRoot(x[1], e[2])
             rd == IntRoot(x[2], e[2])
             pn == PowCap(rn, Abs(e[1]), MaxMagnitude)
             pd == PowCap(rd, Abs(e[1]), MaxMagnitude)
         IN  IF rn < 0 \/ rd < 0 THEN NaN
             ELSE IF e[1] > 0 THEN Rat(pn, pd) ELSE Rat(pd, pn)

RECURSIVE SumSeq(_)
SumSeq(s) == IF s = <<>> THEN Zero ELSE Add(SumSeq(SubSeq(s, 1, Len(s) - 1)), s[Len(s)])

RECURSIVE ProdSeq(_)
ProdSeq(s) == IF s = <<>> THEN One ELSE Mul(ProdSeq(SubSeq(s, 1, Len(s) - 1)), s[Len(s)])

\* np.isclose(a, 1.0) with numpy's defaults rtol = 1e-05, atol = 1e-08:
\* |a - 1| <= atol + rtol * 1 = IsCloseNum / IsCloseDen
IsCloseNum == 1001
IsCloseDen == 100000000

IsCloseToOne(a) ==
    /\ IsFin(a)
    /\ Abs(a[1] - a[2]) <= (IsCloseNum * a[2]) \div IsCloseDen

(***************************************************************************)
(* Strings are sequences of one-character strings, so that str.lower and   *)
(* str.strip are computed rather than assumed.                             *)
(***************************************************************************)
UpperCase == <<"A", "B", "C", "D", "E", "F", "G", "H", "I", "J", "K", "L", "M",
               "N", "O", "P", "Q", "R", "S", "T", "U", "V", "W", "X", "Y", "Z">>
LowerCase == <<"a", "b", "c", "d", "e", "f", "g", "h", "i", "j", "k", "l", "m",
               "n", "o", "p", "q", "r", "s", "t", "u", "v", "w", "x", "y", "z">>
Whitespace == {" ", "\t", "\n"}

LowerChar(c) ==
    IF \E i \in 1..Len(UpperCase) : UpperCase[i] = c
    THEN LowerCase[CHOOSE i \in 1..Len(UpperCase) : UpperCase[i] = c]
    ELSE c

\* str.lower()
Lower(s) == [i \in 1..Len(s) |-> LowerChar(s[i])]

\* str.strip(): leading and trailing whitespace removed
Strip(s) ==
    LET keep == {i \in 1..Len(s) : s[i] \notin Whitespace}
    IN  IF keep = {} THEN <<>>
        ELSE SubSeq(s, CHOOSE i \in keep : \A k \in keep : i <= k,
                       CHOOSE i \in keep : \A k \in keep : i >= k)

COST == <<"c", "o", "s", "t">>
BENEFIT == <<"b", "e", "n", "e", "f", "i", "t">>

\* line 30: t.lower().strip() == "cost"
IsCostLabel(t) == Strip(Lower(t)) = COST

(***************************************************************************)
(* weighted_product(X, weights, criteria_type, alternatives, criteria)     *)
(***************************************************************************)
\* line 20-21: np.array(..., dtype=float) of an integer cell or weight
ToFloat(k) == <<k, 1>>

\* lines 23-25: the weights divided by their sum unless the sum is already
\* close to 1 (a zero sum gives 0/0 = NaN in every position)
NormalizeWeights(w) ==
    LET total == SumSeq(w)
    IN  IF ~IsCloseToOne(total) THEN [j \in 1..Len(w) |-> Div(w[j], total)] ELSE w

\* lines 28-31: an IndexError when a "cost" label sits beyond the weights
NegationFails(w, types) == \E j \in 1..Len(types) : IsCostLabel(types[j]) /\ j > Len(w)

\* faulty variant: the cost columns keep a positive exponent
SignedWeightsUnsigned(w, types) == w

\* lines 28-31: the exponents, the weight negated where the label is "cost"
SignedWeights(w, types) ==
    [j \in 1..Len(w) |-> IF j <= Len(types) /\ IsCostLabel(types[j]) THEN Neg(w[j]) ELSE w[j]]

\* line 34: numpy broadcasting of an (n_alt, n_crit) matrix with a (k,) vector
Broadcastable(ncols, k) == ncols = k \/ k = 1 \/ ncols = 1

BroadcastWidth(ncols, k) == IF ncols = 1 THEN k ELSE ncols

\* line 34: the factors x_ij ** e_j of row i after broadcasting
Factors(row, e) ==
    [c \in 1..BroadcastWidth(Len(row), Len(e)) |->
        Pow(row[IF Len(row) = 1 THEN 1 ELSE c], e[IF Len(e) = 1 THEN 1 ELSE c])]

\* line 34: S = np.prod(X ** w_wp, axis=1)
RawScores(M, e) == [i \in 1..Len(M) |-> ProdSeq(Factors(M[i], e))]

\* faulty variant: the raw scores are returned without the division by their sum
PreferenceUnscaled(S) == S

\* lines 37-38: V = S / S.sum()
Preference(S) == [i \in 1..Len(S) |-> Div(S[i], SumSeq(S))]

\* the permutations of 1..n
Perms(n) == {p \in [1..n -> 1..n] : \A i, k \in 1..n : p[i] = p[k] => i = k}

\* faulty variant: ascending=True
SortOrdersAscending(V) ==
    {p \in Perms(Len(V)) :
        \A i, k \in 1..Len(V) : i < k =>
            /\ IsNaN(V[p[i]]) => IsNaN(V[p[k]]) /\ p[i] < p[k]
            /\ ~Lt(V[p[k]], V[p[i]])}

\* line 48: sort_values(by="Nilai_V", ascending=False) with the default
\* kind="quicksort": rows with a NaN key go last in their input order, the
\* others are in descending key order; the order among equal keys is whatever
\* the unstable sort of the numpy build at hand leaves
SortOrders(V) ==
    {p \in Perms(Len(V)) :
        \A i, k \in 1..Len(V) : i < k =>
            /\ IsNaN(V[p[i]]) => IsNaN(V[p[k]]) /\ p[i] < p[k]
            /\ ~Lt(V[p[i]], V[p[k]])}

\* every power the routine takes on these inputs is exactly representable
ExactInput(M, w, types) ==
    LET e == SignedWeights(NormalizeWeights(w), types)
    IN  \A i \in 1..Len(M) : \A c \in 1..BroadcastWidth(Len(M[i]), Len(e)) :
            \/ ~Broadcastable(Len(M[i]), Len(e))
            \/ Representable(M[i][IF Len(M[i]) = 1 THEN 1 ELSE c],
                             e[IF Len(e) = 1 THEN 1 ELSE c])

NoResult ==
    [status |-> "none", error |-> "", w |-> <<>>, w_wp |-> <<>>, S |-> <<>>, rows |-> <<>>]

Raised(err, w, e, S) ==
    [status |-> "raised", error |-> err, w |-> w, w_wp |-> e, S |-> S, rows |-> <<>>]

\* lines 41-50: the frame of (Alternatif, Nilai_S, Nilai_V), rows in the given order
Frame(names, S, V, order) ==
    [r \in 1..Len(order) |->
        [Alternatif |-> names[order[r]], Nilai_S |-> S[order[r]], Nilai_V |-> V[order[r]]]]

\* the outcomes of one call (lines 20-50): a returned frame or the exception
\* numpy / pandas raise
Outcomes(M, wts, types, names) ==
    LET w == NormalizeWeights(wts)
        e == SignedWeights(w, types)
        S == RawScores(M, e)
        V == Preference(S)
    IN  IF NegationFails(w, types) THEN {Raised("IndexError", w, <<>>, <<>>)}
        ELSE IF ~Broadcastable(Len(M[1]), Len(e)) THEN {Raised("ValueError", w, e, <<>>)}
        ELSE IF Len(names) # Len(M) THEN {Raised("ValueError", w, e, S)}
        ELSE {[status |-> "returned", error |-> "", w |-> w, w_wp |-> e, S |-> S,
               rows |-> Frame(names, S, V, order)] : order \in SortOrders(V)}

(***************************************************************************)
(* Inputs.                                                                 *)
(***************************************************************************)
\* cell values of the spreadsheet (positive), and with the invalid zero cell
EntryValues == {1, 4}
EdgeEntryValues == {0, 1, 4}

\* 1 + 2^-17: inside numpy's isclose tolerance of 1 without being 1
NearOne == <<131073, 131072>>

WeightValues == {Zero, One, NearOne}

TypeLabels ==
    {BENEFIT, COST, <<" ", "C", "o", "s", "t", " ">>, <<"p", "r", "o", "f", "i", "t">>}

AltNames == <<"A", "B", "C", "D", "E", "F">>

Matrices(nalt, ncrit, vals) == [1..nalt -> [1..ncrit -> {ToFloat(v) : v \in vals}]]

NoPrev == [i |-> 0, j |-> 0, V |-> Zero]

Idle == [run |-> "none"]

(***************************************************************************)
(* SpecRank: one call of weighted_product on well-shaped inputs.           *)
(***************************************************************************)
InitRank ==
    /\ \E nalt \in 1..MaxAlt, ncrit \in CritCounts :
          /\ X \in Matrices(nalt, ncrit, EntryValues)
          /\ weights \in [1..ncrit -> WeightValues]
          /\ criteria_type \in {t \in [1..ncrit -> TypeLabels] : ExactInput(X, weights, t)}
          /\ alternatives = SubSeq(AltNames, 1, nalt)
    /\ pc = "ready"
    /\ result = NoResult
    /\ prev = NoPrev
    /\ page = Idle

\* hasil_wp = weighted_product(X, weights, criteria_type, alternatives, criteria)
Call ==
    /\ pc = "ready"
    /\ result' \in Outcomes(X, weights, criteria_type, alternatives)
    /\ pc' = "done"
    /\ UNCHANGED <<X, weights, criteria_type, alternatives, prev, page>>

NextRank == Call

SpecRank == InitRank /\ [][NextRank]_vars

(***************************************************************************)
(* SpecMono: a call on a valid input, then one cell of the matrix raised   *)
(* and the call repeated.                                                  *)
(***************************************************************************)
\* values a cell is raised to
RaisedValues == {4, 16}

InitMono ==
    /\ \E nalt \in 1..MaxAlt, ncrit \in CritCounts :
          /\ X \in Matrices(nalt, ncrit, EntryValues)
          /\ weights \in {w \in [1..ncrit -> {Zero, One}] : \E j \in 1..ncrit : w[j] = One}
          /\ criteria_type \in {t \in [1..ncrit -> {BENEFIT, COST}] : ExactInput(X, weights, t)}
          /\ alternatives = SubSeq(AltNames, 1, nalt)
    /\ pc = "ready"
    /\ result = NoResult
    /\ prev = NoPrev
    /\ page = Idle

\* the score Nilai_V the returned frame gives alternative i
ScoreOf(rows, name) == (CHOOSE r \in {rows[k] : k \in 1..Len(rows)} : r.Alternatif = name).Nilai_V

\* cell (i, j) of the spreadsheet is raised to v and the ranking is asked for again
Increase(i, j, v) ==
    /\ pc = "done"
    /\ result.status = "returned"
    /\ prev = NoPrev
    /\ Lt(X[i][j], ToFloat(v))
    /\ X' \in {M \in {[X EXCEPT ![i][j] = ToFloat(v)]} : ExactInput(M, weights, criteria_type)}
    /\ prev' = [i |-> i, j |-> j, V |-> ScoreOf(result.rows, alternatives[i])]
    /\ result' = NoResult
    /\ pc' = "ready"
    /\ UNCHANGED <<weights, criteria_type, alternatives, page>>

NextMono ==
    \/ Call
    \/ \E i \in 1..Len(X), j \in 1..Len(X[1]), v \in RaisedValues : Increase(i, j, v)

SpecMono == InitMono /\ [][NextMono]_vars

(***************************************************************************)
(* SpecEdge: one call of weighted_product, line 155, on arguments of the   *)
(* shapes the call site passes (one weight and one label per criterion     *)
(* column, one name per row) whose matrix may hold a zero cell.            *)
(***************************************************************************)
InitEdge ==
    /\ \E nalt \in 1..MaxAlt, ncrit \in CritCounts :
          /\ X \in Matrices(nalt, ncrit, EdgeEntryValues)
          /\ weights \in [1..ncrit -> {Zero, One}]
          /\ criteria_type \in {t \in [1..ncrit -> {BENEFIT, COST}] :
                                   ExactInput(X, weights, t)}
          /\ alternatives = SubSeq(AltNames, 1, nalt)
    /\ pc = "ready"
    /\ result = NoResult
    /\ prev = NoPrev
    /\ page = Idle

NextEdge == Call

SpecEdge == InitEdge /\ [][NextEdge]_vars

(***************************************************************************)
(* The Streamlit script (lines 56-177).  Streamlit runs the whole script   *)
(* from the top on the first load and again after every widget change, in  *)
(* a fresh namespace; the button reads True only in the run its click      *)
(* starts.                                                                 *)
(***************************************************************************)
Digits == <<"0", "1", "2", "3", "4", "5", "6", "7", "8", "9">>

IsDigit(c) == \E d \in 1..Len(Digits) : Digits[d] = c

DigitValue(c) == (CHOOSE d \in 1..Len(Digits) : Digits[d] = c) - 1

\* the integer written by a sequence of digits
RECURSIVE DigitsValue(_)
DigitsValue(s) ==
    IF s = <<>> THEN 0
    ELSE 10 * DigitsValue(SubSeq(s, 1, Len(s) - 1)) + DigitValue(s[Len(s)])

NotDot(c) == c # "."

\* float(tok) accepts the token (line 124); of Python's float grammar the
\* texts of the model use unsigned decimal literals with blanks around them
FloatOK(tok) ==
    LET t == Strip(tok)
        dots == {i \in 1..Len(t) : t[i] = "."}
    IN  /\ \A i \in 1..Len(t) : IsDigit(t[i]) \/ t[i] = "."
        /\ Cardinality(dots) <= 1
        /\ \E i \in 1..Len(t) : IsDigit(t[i])

\* float(tok) for an accepted token
ParseFloat(tok) ==
    LET t == Strip(tok)
        dots == {i \in 1..Len(t) : t[i] = "."}
        frac == IF dots = {} THEN 0 ELSE Len(t) - (CHOOSE i \in dots : TRUE)
    IN  Rat(DigitsValue(SelectSeq(t, NotDot)), PowCap(10, frac, MaxMagnitude))

\* str.split(","): the pieces between the commas, empty pieces kept
RECURSIVE Split(_)
Split(s) ==
    LET commas == {i \in 1..Len(s) : s[i] = ","}
    IN  IF commas = {} THEN <<s>>
        ELSE LET k == CHOOSE i \in commas : \A m \in commas : i <= m
             IN  <<SubSeq(s, 1, k - 1)>> \o Split(SubSeq(s, k + 1, Len(s)))

NonBlank(tok) == Strip(tok) # <<>>

\* lines 124 and 130: the pieces of the text that are not blank
Tokens(text) == SelectSeq(Split(text), NonBlank)

\* line 124: does every kept piece parse as a float
WeightsParse(text) == \A k \in 1..Len(Tokens(text)) : FloatOK(Tokens(text)[k])

\* line 124: weights = [float(w) for w in weights_input.split(",") if w.strip() != ""]
ParseWeights(text) == [k \in 1..Len(Tokens(text)) |-> ParseFloat(Tokens(text)[k])]

\* line 130: criteria_type = [t.strip().lower() for t in ... if t.strip() != ""]
ParseTypes(text) == [k \in 1..Len(Tokens(text)) |-> Lower(Strip(Tokens(text)[k]))]

\* the uploader's states: nothing uploaded, a file read_excel cannot read, or
\* a sheet whose first column holds the names and the others the numbers
NoFile == [kind |-> "none", names |-> <<>>, cells |-> <<>>]
BadFile == [kind |-> "unreadable", names |-> <<>>, cells |-> <<>>]

\* numbers of rows and of numeric columns of an uploaded sheet
SheetAlts == {1, 2}
SheetCrits == {0, 1, 2}

Sheets ==
    UNION {{[kind |-> "sheet", names |-> SubSeq(AltNames, 1, nalt), cells |-> M] :
                M \in Matrices(nalt, ncrit, EntryValues)} :
           nalt \in SheetAlts, ncrit \in SheetCrits}

Files == {NoFile, BadFile} \cup Sheets

WeightTexts ==
    {<<>>,
     <<"1">>,
     <<"1", ",", "1">>,
     <<"1", ",", " ", "1">>,
     <<"0", ".", "5", ",", "0", ".", "5">>,
     <<"1", ",", "x">>,
     <<"0", ",", "0">>,
     <<"1", ",", ",", "1">>}

TypeTexts ==
    {<<>>,
     <<"c", "o", "s", "t">>,
     <<"b", "e", "n", "e", "f", "i", "t", ",", "c", "o", "s", "t">>,
     <<"B", "e", "n", "e", "f", "i", "t", ",", " ", "C", "O", "S", "T">>,
     <<"b", "e", "n", "e", "f", "i", "t", ",", "p", "r", "o", "f", "i", "t">>,
     <<"c", "o", "s", "t", ",", ",", "b", "e", "n", "e", "f", "i", "t">>}

NoLocals ==
    [X |-> <<>>, weights |-> <<>>, criteria_type |-> <<>>, alternatives |-> <<>>,
     result |-> NoResult]

\* what one run of the script leaves: the widget values it ran with, the
\* st.error messages shown, whether st.stop() ended it, the uncaught
\* exception, whether buffer was bound, and whether the download button and
\* the success message were shown
RunRecord(file, wtext, ttext, proses, errors, stopped, loc) ==
    LET bound == loc.result.status = "returned"
        crashed == ~stopped /\ ~bound
    IN  [run |-> "script", uploaded_file |-> file, weights_input |-> wtext,
         criteria_types_input |-> ttext, proses |-> proses,
         errors |-> errors, stopped |-> stopped,
         buffer |-> IF bound THEN "written" ELSE "undefined",
         exception |-> IF loc.result.status = "raised" THEN loc.result.error
                       ELSE IF crashed THEN "NameError" ELSE "",
         download |-> ~stopped /\ ~crashed,
         success |-> ~stopped /\ ~crashed,
         loc |-> loc]

\* lines 133, 137: the length test of the validation, left out
CountUnchecked(k, ncrit) == FALSE

\* lines 133, 137: a parsed list of k items against the ncrit criterion columns
CountMismatch(k, ncrit) == k # ncrit

\* lines 96-177: the runs of the script on the given widget values
ScriptRuns(file, wtext, ttext, proses) ==
    IF ~proses THEN {RunRecord(file, wtext, ttext, proses, <<>>, FALSE, NoLocals)}
    ELSE IF file.kind = "none"
    THEN {RunRecord(file, wtext, ttext, proses, <<"no file">>, FALSE, NoLocals)}
    ELSE IF Strip(wtext) = <<>> \/ Strip(ttext) = <<>>
    THEN {RunRecord(file, wtext, ttext, proses, <<"empty parameters">>, FALSE, NoLocals)}
    ELSE IF file.kind = "unreadable"
    THEN {RunRecord(file, wtext, ttext, proses, <<"cannot read">>, TRUE, NoLocals)}
    ELSE IF Len(file.cells[1]) + 1 < 2
    THEN {RunRecord(file, wtext, ttext, proses, <<"format">>, TRUE, NoLocals)}
    ELSE IF ~WeightsParse(wtext)
    THEN {RunRecord(file, wtext, ttext, proses, <<"weight format">>, TRUE, NoLocals)}
    ELSE IF CountMismatch(Len(ParseWeights(wtext)), Len(file.cells[1]))
    THEN {RunRecord(file, wtext, ttext, proses, <<"weight count">>, TRUE, NoLocals)}
    ELSE IF CountMismatch(Len(ParseTypes(ttext)), Len(file.cells[1]))
    THEN {RunRecord(file, wtext, ttext, proses, <<"type count">>, TRUE, NoLocals)}
    ELSE {RunRecord(file, wtext, ttext, proses, <<>>, FALSE,
                    [X |-> file.cells, weights |-> ParseWeights(wtext),
                     criteria_type |-> ParseTypes(ttext), alternatives |-> file.names,
                     result |-> r]) :
             r \in Outcomes(file.cells, ParseWeights(wtext), ParseTypes(ttext), file.names)}

\* the widget values on which a run stays within exactly representable numbers
AppExact(file, wtext, ttext) ==
    \/ file.kind # "sheet"
    \/ Len(file.cells[1]) = 0
    \/ ~WeightsParse(wtext)
    \/ ExactInput(file.cells, ParseWeights(wtext), ParseTypes(ttext))

\* the script reruns with the widget values given and leaves one of its runs
Rerun(file, wtext, ttext, proses) ==
    /\ page' \in {r \in ScriptRuns(file, wtext, ttext, proses) : AppExact(file, wtext, ttext)}
    /\ X' = page'.loc.X
    /\ weights' = page'.loc.weights
    /\ criteria_type' = page'.loc.criteria_type
    /\ alternatives' = page'.loc.alternatives
    /\ result' = page'.loc.result
    /\ UNCHANGED <<pc, prev>>

\* the first load of the page: no file, empty text fields, button not pressed
InitApp ==
    /\ page \in ScriptRuns(NoFile, <<>>, <<>>, FALSE)
    /\ X = <<>>
    /\ weights = <<>>
    /\ criteria_type = <<>>
    /\ alternatives = <<>>
    /\ result = NoResult
    /\ pc = "app"
    /\ prev = NoPrev

\* line 79: a file is uploaded (or removed)
Upload(f) == Rerun(f, page.weights_input, page.criteria_types_input, FALSE)

\* line 84: the weights text is edited
EditWeights(t) == Rerun(page.uploaded_file, t, page.criteria_types_input, FALSE)

\* line 89: the criteria-type text is edited
EditTypes(t) == Rerun(page.uploaded_file, page.weights_input, t, FALSE)

\* line 94: the button is clicked
ClickProses == Rerun(page.uploaded_file, page.weights_input, page.criteria_types_input, TRUE)

NextApp ==
    \/ \E f \in Files : Upload(f)
    \/ \E t \in WeightTexts : EditWeights(t)
    \/ \E t \in TypeTexts : EditTypes(t)
    \/ ClickProses

SpecApp == InitApp /\ [][NextApp]_vars

(***************************************************************************)
(* Vocabulary of the properties.                                           *)
(***************************************************************************)
Ge(a, b) == Lt(b, a) \/ (a = b /\ ~IsNaN(a))

NormalLabel(t) == Strip(Lower(t))

\* the preconditions of section 4.1 of the specification, one by one
ShapeMismatch ==
    \/ Len(weights) # Len(X[1])
    \/ Len(criteria_type) # Len(X[1])
    \/ Len(alternatives) # Len(X)

PositiveEntries ==
    \A i \in 1..Len(X) : \A j \in 1..Len(X[i]) : IsFin(X[i][j]) /\ X[i][j][1] > 0

ValidWeights ==
    /\ \A j \in 1..Len(weights) : IsFin(weights[j]) /\ weights[j][1] >= 0
    /\ \E j \in 1..Len(weights) : weights[j][1] > 0

ValidLabels ==
    \A j \in 1..Len(criteria_type) : NormalLabel(criteria_type[j]) \in {BENEFIT, COST}

ValidInput == ~ShapeMismatch /\ PositiveEntries /\ ValidWeights /\ ValidLabels

Returned == pc = "done" /\ result.status = "returned"

\* position of a name in the input list of alternatives
InputIndex(name) == CHOOSE i \in 1..Len(alternatives) : alternatives[i] = name

Rows == result.rows

(***************************************************************************)
(* C1: for every valid input the returned records are in descending order  *)
(* of preference score: each record's V is >= the V of the record after it.*)
(***************************************************************************)
C1_SortedDescending ==
    (pc = "done" /\ ValidInput) =>
        /\ result.status = "returned"
        /\ Len(Rows) = Len(X)
        /\ \A r \in 1..(Len(Rows) - 1) : Ge(Rows[r].Nilai_V, Rows[r + 1].Nilai_V)

\* three alternatives with three different scores, returned in an order that
\* is not the input order
C1_Witness ==
    /\ Returned /\ ValidInput /\ Len(Rows) = 3
    /\ Lt(Rows[2].Nilai_V, Rows[1].Nilai_V)
    /\ Lt(Rows[3].Nilai_V, Rows[2].Nilai_V)
    /\ Rows[1].Alternatif = "C"
    /\ Rows[3].Alternatif = "A"

(***************************************************************************)
(* C2: sort stability: two alternatives with exactly equal V appear in the *)
(* output in their input order.                                            *)
(***************************************************************************)
C2_StableTies ==
    (Returned /\ ValidInput) =>
        \A r, q \in 1..Len(Rows) :
            (r < q /\ Rows[r].Nilai_V = Rows[q].Nilai_V)
                => InputIndex(Rows[r].Alternatif) < InputIndex(Rows[q].Alternatif)

(***************************************************************************)
(* C3: when every weight is zero the routine signals ZeroWeightSumError    *)
(* and returns no table.  Stated for inputs that are valid in every other  *)
(* respect.                                                                *)
(***************************************************************************)
C3_ZeroWeightsRejected ==
    (/\ pc = "done" /\ ~ShapeMismatch /\ PositiveEntries /\ ValidLabels
     /\ \A j \in 1..Len(weights) : weights[j] = Zero) =>
        /\ result.status = "raised"
        /\ result.error = "ZeroWeightSumError"
        /\ Rows = <<>>

(***************************************************************************)
(* C5: a criteria-type label that normalizes to neither "benefit" nor      *)
(* "cost" is rejected: an error is signalled and no ranking is returned.   *)
(* Stated for inputs that are valid in every other respect.                *)
(***************************************************************************)
C5_UnknownLabelRejected ==
    (/\ pc = "done" /\ ~ShapeMismatch /\ PositiveEntries /\ ValidWeights
     /\ \E j \in 1..Len(criteria_type) :
            NormalLabel(criteria_type[j]) \notin {BENEFIT, COST}) =>
        /\ result.status = "raised"
        /\ Rows = <<>>

(***************************************************************************)
(* C7: for every valid input each returned V_i equals S_i divided by the   *)
(* sum of all S_k (the quotient as float64 division gives it), and the     *)
(* V_i sum to 1 within tolerance: the exact sum of the returned doubles    *)
(* differs from 1 by at most 2^-30 (< 1e-9).                               *)
(***************************************************************************)
\* a fixed-point number <<A, B>> is A * 2^-27 + B * 2^-54 with 0 <= B < 2^27
FixShl(f) == <<2 * f[1] + (2 * f[2]) \div LoUnit, (2 * f[2]) % LoUnit>>
FixShr(f) == <<f[1] \div 2, (f[1] % 2) * (LoUnit \div 2) + f[2] \div 2>>

\* (hi * 2^27 + lo) * 2^e in fixed point, bits below 2^-54 dropped
RECURSIVE FixAt(_, _)
FixAt(f, e) ==
    IF e = -54 \/ f = <<0, 0>> THEN f
    ELSE IF e > -54 THEN FixAt(FixShl(f), e - 1)
    ELSE FixAt(FixShr(f), e + 1)

\* a double of 0..1 in fixed point, at most 2^-54 below its value
Fix(a) == LET q == Quad(a) IN FixAt(<<q[2], q[3]>>, q[4])

RECURSIVE FixSum(_)
FixSum(s) ==
    IF s = <<>> THEN <<0, 0>>
    ELSE LET t == FixSum(SubSeq(s, 1, Len(s) - 1))
             f == Fix(s[Len(s)])
         IN  <<t[1] + f[1] + (t[2] + f[2]) \div LoUnit, (t[2] + f[2]) % LoUnit>>

\* 2^-30 in units of 2^-54: 2^24 = 2^27 / 8
SumTolerance == LoUnit \div 8

\* the doubles of s lie in 0..1 and their exact sum is within 2^-30 of 1
SumsToOne(s) ==
    /\ \A k \in 1..Len(s) : IsFin(s[k]) /\ ~Lt(s[k], Zero) /\ ~Lt(One, s[k])
    /\ LET t == FixSum(s)
            off == t[1] - LoUnit
       IN  /\ off \in -2..1
           /\ off * LoUnit + t[2] <= SumTolerance - Len(s)
           /\ off * LoUnit + t[2] >= -SumTolerance

C7_PreferenceNormalized ==
    (pc = "done" /\ ValidInput) =>
        /\ result.status = "returned"
        /\ Len(Rows) = Len(X)
        /\ \A r \in 1..Len(Rows) :
              Rows[r].Nilai_V =
                  Div(Rows[r].Nilai_S, SumSeq([k \in 1..Len(Rows) |-> Rows[k].Nilai_S]))
        /\ SumsToOne([k \in 1..Len(Rows) |-> Rows[k].Nilai_V])

\* a valid input whose weights do not sum to 1 and whose scores differ, are
\* rounded quotients and do not sum to 1 exactly
C7_Witness ==
    /\ Returned /\ ValidInput /\ Len(Rows) >= 2
    /\ SumSeq(weights) = <<2, 1>>
    /\ Rows[1].Nilai_V # Rows[2].Nilai_V
    /\ Rows[1].Nilai_S # Rows[1].Nilai_V
    /\ IsRounded(Rows[1].Nilai_V)
    /\ FixSum([k \in 1..Len(Rows) |-> Rows[k].Nilai_V]) # <<LoUnit, 0>>

(***************************************************************************)
(* C9: the exponent of column j is the normalized weight w_j / (sum of the *)
(* weights) when the label is "benefit" and exactly its negation when the  *)
(* label is "cost" (compared case- and whitespace-insensitively); only     *)
(* cost columns are negated.  Stated for the inputs that meet every        *)
(* precondition: positive cells, non-negative weights with a positive sum, *)
(* labels that spell benefit or cost, matching lengths.                    *)
(***************************************************************************)
\* the labels of TypeLabels that spell "cost" up to case and outer blanks
SpellsCost(t) == t \in {COST, <<" ", "C", "o", "s", "t", " ">>}

C9_ExponentIsNormalizedWeight ==
    (pc = "done" /\ ValidInput) =>
        /\ Len(result.w_wp) = Len(weights)
        /\ \A j \in 1..Len(weights) :
              LET wn == Div(weights[j], SumSeq(weights))
              IN  result.w_wp[j] = IF SpellsCost(criteria_type[j]) THEN Neg(wn) ELSE wn

(***************************************************************************)
(* C8: monotonicity: with everything else fixed, raising one benefit entry *)
(* of an alternative strictly increases that alternative's V, and raising  *)
(* one cost entry strictly decreases it.                                   *)
(***************************************************************************)
Reranked == pc = "done" /\ prev.i > 0 /\ result.status = "returned"

ScoreNow == ScoreOf(Rows, alternatives[prev.i])

C8_StrictlyMonotone ==
    Reranked =>
        /\ NormalLabel(criteria_type[prev.j]) = BENEFIT => Lt(prev.V, ScoreNow)
        /\ NormalLabel(criteria_type[prev.j]) = COST => Lt(ScoreNow, prev.V)

\* C8 as it holds: the change is strict when the criterion's weight is
\* positive and there is another alternative, and V is unchanged otherwise
C8_MonotoneWhenWeighted ==
    Reranked =>
        IF weights[prev.j][1] > 0 /\ Len(X) >= 2
        THEN /\ NormalLabel(criteria_type[prev.j]) = BENEFIT => Lt(prev.V, ScoreNow)
             /\ NormalLabel(criteria_type[prev.j]) = COST => Lt(ScoreNow, prev.V)
        ELSE ScoreNow = prev.V

\* a cost entry of weight 1/2 was raised among three alternatives and the
\* alternative's score fell
C8_Witness ==
    /\ Reranked /\ Len(X) = 3
    /\ weights = <<One, One>>
    /\ criteria_type[prev.j] = COST
    /\ Lt(ScoreNow, prev.V)

(***************************************************************************)
(* C4: when the matrix holds a zero entry the routine raises               *)
(* InvalidValueError before any raw score S_i is computed and returns no   *)
(* result.  Stated for inputs that are valid in every other respect.       *)
(***************************************************************************)
C4_ZeroEntryRejected ==
    (/\ pc = "done" /\ ~ShapeMismatch /\ ValidWeights /\ ValidLabels
     /\ \E i \in 1..Len(X) : \E j \in 1..Len(X[i]) : X[i][j] = Zero) =>
        /\ result.status = "raised"
        /\ result.error = "InvalidValueError"
        /\ result.S = <<>>
        /\ Rows = <<>>

(***************************************************************************)
(* C6: when the length of the weight list or of the criteria-type list     *)
(* does not match the number of criterion columns, a mismatch error is     *)
(* signalled and no result is computed or returned; no mismatched-length   *)
(* input ever yields a ranking.  The names and the matrix are read from    *)
(* the same sheet, one name per row.  Stated of the runs of the script,    *)
(* whose lines 133-139 stand before the only call of weighted_product.     *)
(***************************************************************************)
\* the run was asked to process a readable sheet with parsed parameter
\* lists of which one has not one item per criterion column
C6_Mismatched ==
    /\ page.run = "script"
    /\ page.proses
    /\ page.uploaded_file.kind = "sheet"
    /\ Strip(page.weights_input) # <<>>
    /\ Strip(page.criteria_types_input) # <<>>
    /\ Len(page.uploaded_file.cells[1]) >= 1
    /\ WeightsParse(page.weights_input)
    /\ \/ Len(ParseWeights(page.weights_input)) # Len(page.uploaded_file.cells[1])
       \/ Len(ParseTypes(page.criteria_types_input)) # Len(page.uploaded_file.cells[1])

C6_ShapeMismatchRejected ==
    /\ C6_Mismatched =>
          /\ page.errors \in {<<"weight count">>, <<"type count">>}
          /\ page.stopped
          /\ result.status = "none"
          /\ page.buffer = "undefined"
          /\ ~page.download
          /\ ~page.success
    /\ (pc = "app" /\ result.status # "none") => ~ShapeMismatch

\* two weights and one label for a sheet of two criterion columns
C6_Witness ==
    /\ C6_Mismatched
    /\ Len(page.uploaded_file.cells[1]) = 2
    /\ Len(ParseWeights(page.weights_input)) = 2
    /\ Len(ParseTypes(page.criteria_types_input)) = 1
    /\ page.errors = <<"type count">>
    /\ page.stopped

(***************************************************************************)
(* C10: in every run of the script the download button and the success     *)
(* message are reached only after a ranking was computed and written to    *)
(* the export buffer in that run; in a run where processing was not        *)
(* requested or validation failed neither is presented and no undefined    *)
(* buffer is used.                                                         *)
(***************************************************************************)
C10_ExportOnlyAfterResult ==
    page.run = "script" =>
        /\ (page.download \/ page.success) =>
              /\ page.proses
              /\ page.loc.result.status = "returned"
              /\ page.buffer = "written"
        /\ (~page.proses \/ page.errors # <<>>) =>
              /\ ~page.download
              /\ ~page.success
              /\ page.exception # "NameError"

====
